---- MODULE Spec2Model ----
(***************************************************************************)
(* The turn loop of the three computer-use agents of this repository       *)
(* (agent.py, job_form.py, app.py): launch of the browser, the request /   *)
(* execute / observe cycle, the per-action executor with its safety gate,  *)
(* and the closing of the browser.  One run of the model is one run of one *)
(* of the three scripts; the script is chosen in Init and never changes.   *)
(***************************************************************************)
EXTENDS Integers, Sequences, FiniteSets, TLC

VARIABLES
    script,     \* which of the three scripts runs
    pc,         \* position of the script
    browser,    \* "none", "open" or "closed"
    turn,       \* number of generate_content requests issued so far
    contents,   \* the conversation history
    cand,       \* function calls of the current model response
    idx,        \* 1-based index of the function call the executor is at
    extra,      \* the executor's extra / meta / extra_fields of the call at idx
    results,    \* the executor's results list of the current turn
    log,        \* what the executor and the observation builder did this turn
    prompts,    \* unusable answers given so far to the prompt of the call at idx
    typed,      \* the line the operator typed last at a prompt of this turn
    lastWait,   \* how the last wait_for_load_state of this turn ended
    frs,        \* the function responses built for the current turn
    signals,    \* the messages printed about the session's end
    denied,     \* the operator has denied a safety check in this session
    exc         \* the exception that left the script, "none" if none

vars == <<script, pc, browser, turn, contents, cand, idx, extra, results, log,
          prompts, typed, lastWait, frs, signals, denied, exc>>

----------------------------------------------------------------------------
(* Bounds of the model *)

\* function calls in one model response
MaxCalls == 2
\* unusable answers the operator gives to one confirmation prompt of agent.py
MaxPrompts == 1
\* how far beyond either end of the grid the model's coordinates go
NormMargin == 300

(* Program constants *)

TURN_LIMIT == 10
SCREEN_WIDTH == 1440
SCREEN_HEIGHT == 900

Scripts == {"agent", "job_form", "app"}

----------------------------------------------------------------------------
(* Coordinate mapping: int(x / 1000 * SCREEN_WIDTH).  x / 1000 is Python's  *)
(* true division: the double nearest to the quotient.  Its product with the *)
(* screen size is rounded to a double again, and int() cuts the fraction    *)
(* off, towards zero.  A double is kept here as an integer of 53 bits,      *)
(* held in limbs of LimbBits bits with the most significant limb first and  *)
(* not cut to size, times a power of two.                                   *)

\* the side of the grid the model's coordinates lie on
Grid == 1000

LimbBits == 18
MantissaBits == 53

RECURSIVE Pow2(_)
Pow2(k) == IF k = 0 THEN 1 ELSE 2 * Pow2(k - 1)

Limb == Pow2(LimbBits)

\* number of bits of h > 0
RECURSIVE BitLen(_)
BitLen(h) == IF h = 0 THEN 0 ELSE 1 + BitLen(h \div 2)

\* the s for which n * 2^s / d has MantissaBits bits before the point (n, d > 0)
RECURSIVE Scale(_, _, _)
Scale(n, d, s) ==
    IF n < d THEN Scale(2 * n, d, s + 1)
    ELSE IF n >= 2 * d THEN Scale(n, 2 * d, s - 1)
    ELSE s

\* long division of the limbs by d, r being the remainder carried in:
\* <<quotient limbs, last remainder>>
RECURSIVE DivLimbs(_, _, _)
DivLimbs(limbs, d, r) ==
    IF limbs = <<>> THEN <<<<>>, r>>
    ELSE LET t == r * Limb + Head(limbs)
             rest == DivLimbs(Tail(limbs), d, t % d)
         IN  <<(<<t \div d>>) \o rest[1], rest[2]>>

\* the limbs plus c, c added at the least significant limb
RECURSIVE AddLow(_, _)
AddLow(limbs, c) ==
    IF Len(limbs) = 1 THEN <<limbs[1] + c>>
    ELSE LET n == Len(limbs)
             t == limbs[n] + c
         IN  Append(AddLow(SubSeq(limbs, 1, n - 1), t \div Limb), t % Limb)

\* the limbs times w
RECURSIVE MulLimbs(_, _, _)
MulLimbs(limbs, w, c) ==
    IF Len(limbs) = 1 THEN <<limbs[1] * w + c>>
    ELSE LET n == Len(limbs)
             t == limbs[n] * w + c
         IN  Append(MulLimbs(SubSeq(limbs, 1, n - 1), w, t \div Limb), t % Limb)

Zeros(k) == [i \in 1..k |-> 0]

\* round to nearest, ties to even: is the integer with last limb `last`, cut
\* off above a fraction of num / den, rounded up
RoundsUp(last, num, den) ==
    \/ 2 * num > den
    \/ 2 * num = den /\ last % 2 = 1

\* the double nearest to n / d, n, d > 0: <<limbs of the mantissa, s>>, the
\* value being mantissa / 2^s
TrueDiv(n, d) ==
    LET s == Scale(n, d, MantissaBits - 1)
        num == <<n * Pow2(s % LimbBits)>> \o Zeros(s \div LimbBits)
        q == DivLimbs(num, d, 0)
        m == q[1]
    IN  <<IF RoundsUp(m[Len(m)], q[2], d) THEN AddLow(m, 1) ELSE m, s>>

\* the double nearest to the product of the double f with the integer w > 0:
\* <<limbs, s>>, the value being limbs / 2^s
MulDouble(f, w) ==
    LET p == MulLimbs(f[1], w, 0)
        n == Len(p)
        cut == BitLen(p[1]) + LimbBits * (n - 1) - MantissaBits
        unit == Pow2(cut)
        low == p[n] % unit
        kept == [p EXCEPT ![n] = p[n] - low]
    IN  <<IF RoundsUp(p[n] \div unit, low, unit) THEN AddLow(kept, unit) ELSE kept,
          f[2]>>

\* int() of a double >= 0 below 2^LimbBits: its whole part
IntOf(f) ==
    LET whole == SubSeq(f[1], 1, Len(f[1]) - (f[2] \div LimbBits)) IN
    whole[Len(whole)] \div Pow2(f[2] % LimbBits)

\* int(x / 1000 * size)
Denorm(x, size) ==
    IF x = 0 THEN 0
    ELSE IF x > 0 THEN IntOf(MulDouble(TrueDiv(x, Grid), size))
    ELSE -IntOf(MulDouble(TrueDiv(-x, Grid), size))

denorm_x(x) == Denorm(x, SCREEN_WIDTH)

denorm_y(y) == Denorm(y, SCREEN_HEIGHT)

----------------------------------------------------------------------------
(* Operator input: lines of characters, trimmed and lower-cased by the code *)

LowerChar(c) ==
    CASE c = "Y" -> "y"
      [] c = "E" -> "e"
      [] c = "S" -> "s"
      [] c = "N" -> "n"
      [] c = "O" -> "o"
      [] OTHER -> c

Lower(s) == [i \in 1..Len(s) |-> LowerChar(s[i])]

RECURSIVE LStrip(_)
LStrip(s) == IF s # <<>> /\ Head(s) = " " THEN LStrip(Tail(s)) ELSE s

RECURSIVE RStrip(_)
RStrip(s) ==
    IF s # <<>> /\ s[Len(s)] = " " THEN RStrip(SubSeq(s, 1, Len(s) - 1)) ELSE s

Strip(s) == RStrip(LStrip(s))

StartsWithY(s) == s # <<>> /\ Head(s) = "y"

\* nothing typed yet
NoLine == <<"(nothing)">>

\* the lines the operator may type at a confirmation prompt
Answers ==
    { <<>>, <<" ", "Y">>, <<"n", "o">>, <<"y", "o">> }

\* the lines the operator may type when one call is followed on its own
ExecAnswers ==
    Answers \cup
    { <<" ">>, <<"y">>, <<"Y", "E", "S">>, <<"y", "e", "s", " ">>, <<"n">>,
      <<"N", "o">>, <<"o", "y">>, <<"y", "e">> }

\* Decision that takes an empty answer for a yes
Decision_EmptyAllows(s, line) ==
    LET ans == Lower(Strip(line)) IN
    IF s = "agent"
    THEN IF ans \in { <<>>, <<"y">>, <<"y", "e", "s">> } THEN "allow"
         ELSE IF ans \in { <<"n">>, <<"n", "o">> } THEN "deny"
         ELSE "reprompt"
    ELSE IF ans = <<>> \/ StartsWithY(ans) THEN "allow" ELSE "deny"

\* ask_confirmation / get_safety_confirmation on one typed line:
\* "allow", "deny", or "reprompt" (agent.py asks again)
Decision(s, line) ==
    LET ans == Lower(Strip(line)) IN
    IF s = "agent"
    THEN IF ans \in { <<"y">>, <<"y", "e", "s">> } THEN "allow"
         ELSE IF ans \in { <<>>, <<"n">>, <<"n", "o">> } THEN "deny"
         ELSE "reprompt"
    ELSE IF StartsWithY(ans) THEN "allow" ELSE "deny"

----------------------------------------------------------------------------
(* Function calls of a model response *)

\* args that are optional are "absent" when the model did not send them
Call(name, safety, clear, enter, direction, x, y) ==
    [name |-> name, safety |-> safety, clear |-> clear, enter |-> enter,
     direction |-> direction, x |-> x, y |-> y]

\* the function calls the model may put in a response
Calls ==
    { Call("click_at", FALSE, "absent", "absent", "absent", 0, 0),
      Call("click_at", TRUE, "absent", "absent", "absent", 0, 0),
      Call("fly_away", FALSE, "absent", "absent", "absent", 0, 0) }

RECURSIVE SeqsUpTo(_, _)
SeqsUpTo(S, n) ==
    IF n = 0 THEN { <<>> }
    ELSE LET shorter == SeqsUpTo(S, n - 1) IN
         shorter \cup { Append(q, c) : q \in { r \in shorter : Len(r) = n - 1 }, c \in S }

\* the lists of function calls a candidate may hold
Responses == SeqsUpTo(Calls, MaxCalls)

\* the values of an optional boolean arg
Flags == { "absent", "true", "false" }

\* the coordinates the model may send: the grid and NormMargin beyond each end
NormRange == (0 - NormMargin)..(Grid + NormMargin)

\* the function calls of the responses that are followed through one turn of
\* the executor on their own
ExecCalls ==
    { Call("click_at", FALSE, "absent", "absent", "absent", n, n) : n \in NormRange }
    \cup { Call("type_text_at", g, cl, en, "absent", 500, 500) :
             g \in BOOLEAN, cl \in Flags, en \in Flags }
    \cup Calls

ExecResponses ==
    { <<c>> : c \in ExecCalls }
    \cup { <<c, d>> : c \in Calls,
                      d \in { Call("type_text_at", TRUE, "false", "true", "absent",
                                   500, 500) } }

\* an optional boolean arg read with args.get(key, default)
Get(arg, default) == IF arg = "absent" THEN default ELSE arg = "true"

----------------------------------------------------------------------------
(* The executor's dispatch on the action name *)

Recognized(s) ==
    CASE s = "agent" ->
           { "open_web_browser", "wait_5_seconds", "go_back", "go_forward",
             "search", "navigate", "click_at", "hover_at", "type_text_at",
             "key_combination", "scroll_document", "scroll_at", "drag_and_drop" }
      [] s = "job_form" ->
           { "open_web_browser", "navigate", "click_at", "type_text_at",
             "scroll_document", "key_combination" }
      [] OTHER ->
           { "open_web_browser", "click_at", "type_text_at", "scroll_document",
             "key_combination" }

\* type_text_at: click, optional select-all and delete, type, optional Enter
TypeTextOps(s, c) ==
    LET clear == IF s = "app" THEN TRUE ELSE Get(c.clear, TRUE)
        enter == Get(c.enter, IF s = "job_form" THEN FALSE ELSE TRUE)
    IN  <<"mouse.click">>
        \o (IF clear THEN <<"keyboard.press Meta+A", "keyboard.press Backspace">>
            ELSE <<>>)
        \o <<"keyboard.type">>
        \o (IF enter THEN <<"keyboard.press Enter">> ELSE <<>>)

\* scroll_document
ScrollDocumentOps(s, c) ==
    LET direction == IF c.direction = "absent" THEN "down" ELSE c.direction IN
    IF s = "app" THEN <<"mouse.wheel">>
    ELSE IF direction = "down" THEN <<"keyboard.press PageDown">>
    ELSE IF direction = "up" THEN <<"keyboard.press PageUp">>
    ELSE IF s = "agent" /\ direction \in {"left", "right"}
         THEN <<"page.evaluate scrollBy">>
    ELSE <<>>

\* the operations the branch of the if / elif chain for call c issues, in order
BrowserOps(s, c) ==
    IF c.name \notin Recognized(s) THEN <<>>
    ELSE CASE c.name = "open_web_browser" -> <<>>
           [] c.name = "wait_5_seconds" -> <<"time.sleep 5">>
           [] c.name = "go_back" -> <<"page.go_back">>
           [] c.name = "go_forward" -> <<"page.go_forward">>
           [] c.name = "search" -> <<"page.goto">>
           [] c.name = "navigate" -> <<"page.goto">>
           [] c.name = "click_at" -> <<"mouse.click">>
           [] c.name = "hover_at" -> <<"mouse.move">>
           [] c.name = "type_text_at" -> TypeTextOps(s, c)
           [] c.name = "key_combination" -> <<"keyboard.press keys">>
           [] c.name = "scroll_document" -> ScrollDocumentOps(s, c)
           [] c.name = "scroll_at" -> <<"mouse.move", "mouse.wheel">>
           [] c.name = "drag_and_drop" ->
                <<"mouse.move", "mouse.down", "mouse.move steps", "mouse.up">>

\* time.sleep does not raise; every operation on the page may
CanRaise(op) == op # "time.sleep 5"

\* no pixel
NoPoint == <<>>

\* the pixel handed to an operation of call c: mouse.click and mouse.move get
\* (denorm_x(args["x"]), denorm_y(args["y"])); the other operations take none
\* (the far end of a drag is not followed)
PointAt(c, op) ==
    IF op \in { "mouse.click", "mouse.move" }
    THEN <<denorm_x(c.x), denorm_y(c.y)>>
    ELSE NoPoint

\* the warning the else branch of the chain puts into the outcome ("" is none)
Warning(s, c) ==
    IF c.name \in Recognized(s) THEN ""
    ELSE IF s = "agent" THEN "unimplemented_action"
    ELSE IF s = "job_form" THEN "unimplemented"
    ELSE ""

\* str(e) of the exception an operation raised
ExcMessage(op) == "raised by " \o op

----------------------------------------------------------------------------
(* Outcomes: the (name, payload) pairs of the results list.  A payload key  *)
(* that is absent is "" (error, warning) or FALSE (safety_acknowledgement). *)

Outcome(name, error, warning, ack) ==
    [name |-> name, error |-> error, warning |-> warning, ack |-> ack]

NoExtra == [ack |-> FALSE]

\* results after the operator denied the call named name
DeniedResults(s, res, name) ==
    IF s = "app" THEN res
    ELSE Append(res, Outcome(name, "user_denied", "", FALSE))

\* ErrorOutcome with the exception's message left out of the payload
ErrorOutcome_NoMessage(name, msg, ex) == Outcome(name, "", "", ex.ack)

\* ErrorOutcome with the keys of extra left out of the payload
ErrorOutcome_NoExtra(name, msg, ex) == Outcome(name, msg, "", FALSE)

\* the payload appended when the operation raised msg: {"error": str(e), **extra}
ErrorOutcome(name, msg, ex) == Outcome(name, msg, "", ex.ack)

\* the payload appended when the branch ran to its end
PlainOutcome(s, c, ex) == Outcome(c.name, "", Warning(s, c), ex.ack)

\* does the load-state wait sit inside a try that swallows its exception
WaitIsGuarded(s) == s # "app"

\* is the load-state wait skipped when the operation raised
WaitSkippedOnError(s) == s # "app"

----------------------------------------------------------------------------
(* The turn loop *)

\* LoopContinues with the range one too long
LoopContinues_OneMore(t) == t <= TURN_LIMIT

\* for turn in range(10): is there another iteration after t requests
LoopContinues(t) == t < TURN_LIMIT

\* HasFunctionCall that overlooks a single function call
HasFunctionCall_Several(c) == Len(c) > 1

\* any(p.function_call for p in cand.content.parts)
HasFunctionCall(c) == Len(c) > 0

\* the for loop has an else clause that reports the step limit
HasElse(s) == s # "app"

\* is the code at this site inside the try whose finally closes the browser
InTry(s, site) ==
    CASE site = "new_context" -> FALSE
      [] site = "initial_page" -> s # "app"
      [] OTHER -> TRUE

\* where an exception raised at site takes the script
OnRaise(s, site) == IF InTry(s, site) THEN "finally" ELSE "exited"

GoalEntry == [role |-> "user", kind |-> "goal", turn |-> 0, fc |-> FALSE]
\* ModelEntry appended under the user's role
ModelEntry_AsUser(t, c) ==
    [role |-> "user", kind |-> "response", turn |-> t, fc |-> HasFunctionCall(c)]

ModelEntry(t, c) ==
    [role |-> "model", kind |-> "response", turn |-> t, fc |-> HasFunctionCall(c)]
ObservationEntry(t) ==
    [role |-> "user", kind |-> "observation", turn |-> t, fc |-> FALSE]

\* BuildFunctionResponses with a screenshot of its own for every response
BuildFunctionResponses_ShotEach(res, t) ==
    [k \in 1..Len(res) |-> [name |-> res[k].name, payload |-> res[k],
                              url |-> t, shot |-> TURN_LIMIT * t + k]]

\* build_function_responses / get_function_responses: one response per outcome,
\* all with the screenshot and the url taken in turn t
BuildFunctionResponses(res, t) ==
    [k \in 1..Len(res) |-> [name |-> res[k].name, payload |-> res[k],
                              url |-> t, shot |-> t]]

\* Appended that drops the oldest entry to make room
Appended_Window(h, entry) == Append(Tail(h), entry)

\* contents.append(entry)
Appended(h, entry) == Append(h, entry)

Event(ev, i, d) == [ev |-> ev, i |-> i, d |-> d, at |-> NoPoint]

\* OpEvents with the last operation issued a second time
OpEvents_Retry(ops, n, i, c) ==
    [k \in 1..(IF n = 0 THEN 0 ELSE n + 1) |->
        LET op == ops[IF k > n THEN n ELSE k] IN
        [Event("op", i, op) EXCEPT !.at = PointAt(c, op)]]

\* the events of issuing ops[1..n] for call i, which is c
RECURSIVE OpEvents(_, _, _, _)
OpEvents(ops, n, i, c) ==
    IF n = 0 THEN <<>>
    ELSE Append(OpEvents(ops, n - 1, i, c),
                [Event("op", i, ops[n]) EXCEPT !.at = PointAt(c, ops[n])])

----------------------------------------------------------------------------
Init ==
    /\ script \in Scripts
    /\ pc = "start"
    /\ browser = "none"
    /\ turn = 0
    /\ contents = <<>>
    /\ cand = <<>>
    /\ idx = 0
    /\ extra = NoExtra
    /\ results = <<>>
    /\ log = <<>>
    /\ prompts = 0
    /\ typed = NoLine
    /\ lastWait = "none"
    /\ frs = <<>>
    /\ signals = {}
    /\ denied = FALSE
    /\ exc = "none"

\* sync_playwright().start() and chromium.launch()
Launch ==
    /\ pc = "start"
    /\ \/ /\ browser' = "open"
          /\ pc' = "setup"
          /\ exc' = exc
       \/ /\ browser' = browser
          /\ pc' = "exited"
          /\ exc' = "launch"
    /\ UNCHANGED <<script, turn, contents, cand, idx, extra, results, log,
                   prompts, typed, lastWait, frs, signals, denied>>

\* browser.new_context(), context.new_page() (and page.on in job_form.py)
NewContext ==
    /\ pc = "setup"
    /\ \/ /\ pc' = "initial"
          /\ exc' = exc
       \/ /\ pc' = OnRaise(script, "new_context")
          /\ exc' = "new_context"
    /\ UNCHANGED <<script, browser, turn, contents, cand, idx, extra, results,
                   log, prompts, typed, lastWait, frs, signals, denied>>

\* page.goto(start page), page.screenshot(), contents = [goal and screenshot]
InitialPage ==
    /\ pc = "initial"
    /\ \/ /\ contents' = <<GoalEntry>>
          /\ pc' = "request"
          /\ exc' = exc
       \/ /\ contents' = contents
          /\ pc' = OnRaise(script, "initial_page")
          /\ exc' = "initial_page"
    /\ UNCHANGED <<script, browser, turn, cand, idx, extra, results, log,
                   prompts, typed, lastWait, frs, signals, denied>>

\* one iteration's head: generate_content, candidates[0], contents.append, and
\* the test for function calls; the executor starts with an empty results list
GenerateContent ==
    /\ pc = "request"
    /\ LoopContinues(turn)
    /\ turn' = turn + 1
    /\ \/ /\ exc' = "generate_content"
          /\ pc' = OnRaise(script, "loop")
          /\ UNCHANGED <<contents, cand, idx, results, log, typed, lastWait, frs,
                         signals>>
       \/ \E c \in Responses :
            /\ exc' = exc
            /\ cand' = c
            /\ contents' = Appended(contents, ModelEntry(turn + 1, c))
            /\ IF HasFunctionCall(c)
               THEN /\ pc' = "exec"
                    /\ idx' = 1
                    /\ results' = <<>>
                    /\ log' = <<>>
                    /\ typed' = NoLine
                    /\ lastWait' = "none"
                    /\ frs' = <<>>
                    /\ signals' = signals
               ELSE /\ pc' = "finally"
                    /\ signals' = signals \cup {"DONE"}
                    /\ UNCHANGED <<idx, results, log, typed, lastWait, frs>>
    /\ UNCHANGED <<script, browser, extra, prompts, denied>>

\* the for loop ran out of iterations: its else clause, where there is one
LoopExhausted ==
    /\ pc = "request"
    /\ ~LoopContinues(turn)
    /\ signals' = IF HasElse(script) THEN signals \cup {"STEP_LIMIT"} ELSE signals
    /\ pc' = "finally"
    /\ UNCHANGED <<script, browser, turn, contents, cand, idx, extra, results,
                   log, prompts, typed, lastWait, frs, denied, exc>>

\* the confirmation prompt of a call that carries safety_decision, the
\* operator typing one of lines
Gate(lines) ==
    /\ pc = "exec"
    /\ cand[idx].safety
    /\ \E line \in lines :
         /\ typed' = line
         /\ \/ /\ Decision(script, line) = "allow"
               /\ extra' = [extra EXCEPT !.ack = TRUE]
               /\ pc' = "op"
               /\ log' = Append(log, Event("allow", idx, ""))
               /\ prompts' = 0
               /\ UNCHANGED <<idx, results, denied>>
            \/ /\ Decision(script, line) = "deny"
               /\ denied' = TRUE
               /\ results' = DeniedResults(script, results, cand[idx].name)
               /\ log' = Append(log, Event("deny", idx, ""))
               /\ pc' = "observe"
               /\ idx' = 0
               /\ prompts' = 0
               /\ extra' = NoExtra
            \/ /\ Decision(script, line) = "reprompt"
               /\ prompts < MaxPrompts
               /\ prompts' = prompts + 1
               /\ UNCHANGED <<pc, idx, extra, results, log, denied>>
    /\ UNCHANGED <<script, browser, turn, contents, cand, lastWait, frs,
                   signals, exc>>

SafetyGate == Gate(Answers)

\* the try block of one call: the operations of its branch, the load-state
\* wait and the settling sleep, and the append to results
Perform ==
    /\ \/ pc = "op"
       \/ pc = "exec" /\ ~cand[idx].safety
    /\ LET c == cand[idx]
           ops == BrowserOps(script, c)
           last == idx = Len(cand)
       IN \E f \in 0..Len(ops), timeout \in BOOLEAN :
            LET raised == f > 0
                done == IF raised THEN f ELSE Len(ops)
                waits == ~(raised /\ WaitSkippedOnError(script))
                thrown == waits /\ timeout /\ ~WaitIsGuarded(script)
                out == IF raised THEN ErrorOutcome(c.name, ExcMessage(ops[f]), extra)
                       ELSE PlainOutcome(script, c, extra)
                evs == OpEvents(ops, done, idx, c)
                       \o (IF raised THEN <<Event("raise", idx, ops[f])>> ELSE <<>>)
                       \o (IF waits THEN <<Event("wait", idx, "")>> ELSE <<>>)
                       \o (IF waits /\ ~thrown THEN <<Event("sleep", idx, "")>>
                           ELSE <<>>)
            IN /\ raised => CanRaise(ops[f])
               /\ ~waits => ~timeout
               /\ log' = log \o evs
               /\ lastWait' = IF ~waits THEN "none"
                              ELSE IF timeout THEN "timeout" ELSE "ok"
               /\ IF thrown
                  THEN /\ exc' = "wait_for_load_state"
                       /\ pc' = OnRaise(script, "loop")
                       /\ results' = results
                  ELSE /\ exc' = exc
                       /\ pc' = IF last THEN "observe" ELSE "exec"
                       /\ results' = Append(results, out)
               /\ idx' = IF thrown \/ last THEN 0 ELSE idx + 1
    /\ extra' = NoExtra
    /\ prompts' = 0
    /\ UNCHANGED <<script, browser, turn, contents, cand, typed, frs, signals,
                   denied>>

\* build_function_responses and the append of the observation to contents
Observe ==
    /\ pc = "observe"
    /\ \/ /\ exc' = "screenshot"
          /\ pc' = OnRaise(script, "loop")
          /\ UNCHANGED <<contents, log, frs>>
       \/ /\ exc' = exc
          /\ frs' = BuildFunctionResponses(results, turn)
          /\ log' = log \o <<Event("screenshot", 0, ""), Event("url", 0, "")>>
          /\ contents' = Appended(contents, ObservationEntry(turn))
          /\ pc' = "request"
    /\ UNCHANGED <<script, browser, turn, cand, idx, extra, results, prompts,
                   typed, lastWait, signals, denied>>

\* the finally clause: browser.close() and stop()
Close ==
    /\ pc = "finally"
    /\ browser' = "closed"
    /\ pc' = "exited"
    /\ UNCHANGED <<script, turn, contents, cand, idx, extra, results, log,
                   prompts, typed, lastWait, frs, signals, denied, exc>>

Next ==
    \/ Launch
    \/ NewContext
    \/ InitialPage
    \/ GenerateContent
    \/ LoopExhausted
    \/ SafetyGate
    \/ Perform
    \/ Observe
    \/ Close

Spec == Init /\ [][Next]_vars

\* the script is one sequential process: it takes its next step when it has one
FairSpec == Spec /\ WF_vars(Next)

\* One turn of the executor on its own: the script has launched the browser,
\* loaded the start page and received its first response, one of ExecResponses.
ExecInit ==
    /\ script \in Scripts
    /\ pc = "exec"
    /\ browser = "open"
    /\ turn = 1
    /\ cand \in ExecResponses
    /\ contents = <<GoalEntry, ModelEntry(1, cand)>>
    /\ idx = 1
    /\ extra = NoExtra
    /\ results = <<>>
    /\ log = <<>>
    /\ prompts = 0
    /\ typed = NoLine
    /\ lastWait = "none"
    /\ frs = <<>>
    /\ signals = {}
    /\ denied = FALSE
    /\ exc = "none"

ExecGate == Gate(ExecAnswers)

ExecNext ==
    \/ ExecGate
    \/ Perform
    \/ Observe

ExecSpec == ExecInit /\ [][ExecNext]_vars

----------------------------------------------------------------------------
(* Properties *)

\* the events of kind ev in the log of the current turn
Events(ev) == { k \in 1..Len(log) : log[k].ev = ev }

\* the model responses in the history that held at least one function call
ActionResponses ==
    { k \in 1..Len(contents) : contents[k].kind = "response" /\ contents[k].fc }

\* the script has left its last statement without an exception
EndedNormally == pc = "exited" /\ exc = "none"

\* C1: once the operator has denied a safety check, the loop issues no further
\* model request and the executor processes no action of a later turn.
C1_SessionEndsAfterDenial ==
    [][denied => (turn' = turn /\ pc' \notin {"exec", "op"})]_vars

\* C2: a run that ends ends in exactly one of the three ways DONE (a response
\* without function calls), STOPPED_BUDGET (the loop ran out of its 10 turns)
\* and STOPPED_DENIED (the operator denied a safety check).
C2_ExactlyOneEnding ==
    EndedNormally =>
        LET done == "DONE" \in signals
            budget == turn = TURN_LIMIT /\ ~done
            stopped == denied
        IN  (IF done THEN 1 ELSE 0) + (IF budget THEN 1 ELSE 0)
              + (IF stopped THEN 1 ELSE 0) = 1

\* C3: a denial of the i-th call of a turn leaves exactly i outcomes, the i-th
\* being {"error": "user_denied"} under the denied call's name and the earlier
\* ones those of the earlier calls, and no browser operation of call i or of a
\* later call is issued.
C3_DenialOutcome ==
    \A k \in Events("deny") :
        LET i == log[k].i IN
        i <= Len(cand) =>
        /\ Len(results) = i
        /\ results[i] = Outcome(cand[i].name, "user_denied", "", FALSE)
        /\ \A j \in 1..(i - 1) : results[j].name = cand[j].name
        /\ \A j \in Events("op") : log[j].i < i

\* C4: when the executor is through with a turn in which nothing was denied,
\* results holds one outcome per function call of the response, the i-th under
\* the i-th call's name.
C4_OneOutcomePerRequest ==
    (Len(cand) > 0 /\ pc \notin {"exec", "op"} /\ Events("deny") = {}) =>
        /\ Len(results) = Len(cand)
        /\ \A i \in 1..Len(cand) : results[i].name = cand[i].name

\* C5: no step of the executor throws to the turn loop: from inside the
\* executor the script goes on to the next call or to the observation, and no
\* exception leaves the script.
C5_NothingThrownToLoop ==
    [][(pc = "exec" \/ pc = "op") =>
          (pc' \in {"exec", "op", "observe"} /\ exc' = exc)]_vars

\* C6: in agent.py and job_form.py, when an operation of the i-th call raises,
\* the call gets an outcome whose error is the exception's message, the
\* executor goes on to call i+1 (or returns after the last call), and the
\* observation of a turn in which an operation raised is appended to the
\* history and the loop goes to its next request.
C6_ErrorDoesNotAbortTurn ==
    [][(script = "agent" \/ script = "job_form") =>
        /\ \A k \in (Len(log) + 1)..Len(log') :
             log'[k].ev = "raise" =>
               /\ log'[k].i = idx
               /\ results' = Append(results, results'[Len(results')])
               /\ Len(results') = idx
               /\ results'[idx].name = cand[idx].name
               /\ results'[idx].error = ExcMessage(log'[k].d)
               /\ exc' = exc
               /\ IF idx < Len(cand) THEN pc' = "exec" /\ idx' = idx + 1
                                     ELSE pc' = "observe"
        /\ (pc = "observe" /\ Events("raise") # {} /\ exc' = exc) =>
               /\ pc' = "request"
               /\ contents' = Append(contents, ObservationEntry(turn))
               /\ Len(frs') = Len(results)
      ]_vars

\* a turn of agent.py or job_form.py whose first call raised and whose second
\* call ran, with the observation appended and the next request due
C6_Witness ==
    /\ script \in {"agent", "job_form"}
    /\ pc = "request"
    /\ \E k \in Events("raise") : log[k].i = 1
    /\ Len(results) = 2
    /\ results[1].error = ExcMessage("mouse.click")
    /\ results[2].error = ""
    /\ \E k \in Events("op") : log[k].i = 2
    /\ contents[Len(contents)] = ObservationEntry(turn)

\* C7: a script that has launched the browser does not end with it open.
C7_BrowserClosedOnExit ==
    (pc = "exited" /\ browser # "none") => browser = "closed"

\* C8: a run ends with the step-limit message exactly if all 10 responses held
\* a function call, and never with both the step-limit and the DONE message
\* (stated for the runs without an exception and without a denial).
C8_StepLimitSignal ==
    (EndedNormally /\ ~denied) =>
        /\ ("STEP_LIMIT" \in signals) <=> (Cardinality(ActionResponses) = TURN_LIMIT)
        /\ ~("STEP_LIMIT" \in signals /\ "DONE" \in signals)

\* C9: at most 10 model requests are issued, every run comes to its end, and a
\* run that has entered the turn loop ends with the browser closed.
C9_BoundedAndTerminates ==
    /\ [](turn <= TURN_LIMIT)
    /\ <>(pc = "exited")
    /\ [](pc = "request" => <>(pc = "exited" /\ browser = "closed"))

\* a run that went through all 10 turns and closed the browser
C9_Witness ==
    /\ EndedNormally
    /\ turn = TURN_LIMIT
    /\ "DONE" \notin signals
    /\ Len(contents) = 2 * TURN_LIMIT + 1
    /\ browser = "closed"

\* C10: a response without function calls is appended to the history and
\* ends the session as DONE at once, with no browser operation, no observation
\* and no further request; a response with a function call does not give DONE.
C10_DoneOnEmptyResponse ==
    [][/\ (turn' = turn + 1 /\ exc' = exc) =>
            /\ contents' = Append(contents,
                 [role |-> "model", kind |-> "response", turn |-> turn',
                  fc |-> Len(cand') > 0])
            /\ Len(cand') = 0 =>
                 /\ "DONE" \in signals'
                 /\ pc' = "finally"
                 /\ log' = log /\ results' = results /\ frs' = frs
            /\ Len(cand') > 0 => ("DONE" \notin signals' /\ pc' = "exec")
       /\ "DONE" \in signals =>
            /\ turn' = turn
            /\ contents' = contents
            /\ log' = log
            /\ pc' \in {"finally", "exited"}
      ]_vars

\* a session that ended as DONE in its third turn
C10_Witness ==
    /\ EndedNormally
    /\ "DONE" \in signals
    /\ turn = 3
    /\ Len(cand) = 0
    /\ Len(contents) = 6
    /\ contents[6] = [role |-> "model", kind |-> "response", turn |-> 3, fc |-> FALSE]
    /\ browser = "closed"

\* the operations issued for call i of the current turn, in order
Issued(i) ==
    LET evs == SelectSeq(log, LAMBDA e : e.ev = "op" /\ e.i = i) IN
    [k \in 1..Len(evs) |-> evs[k].d]

\* the observation of the current turn has been appended to the history
Observed == contents # <<>> /\ contents[Len(contents)] = ObservationEntry(turn)

\* C11: a turn takes at most one screenshot and one URL read, after every
\* event of the executor and never between two actions; once the observation
\* is built there is exactly one of each, and the observation holds one
\* function response per collected outcome, in the outcomes' order, all with
\* the same screenshot and the same URL.
C11_OneObservationPerTurn ==
    /\ Cardinality(Events("screenshot")) <= 1
    /\ Cardinality(Events("url")) <= 1
    /\ \A k \in Events("screenshot") \cup Events("url") :
         \A j \in 1..Len(log) : log[j].i > 0 => j < k
    /\ Observed =>
         /\ Cardinality(Events("screenshot")) = 1
         /\ Cardinality(Events("url")) = 1
         /\ Len(frs) = Len(results)
         /\ \A k \in 1..Len(frs) :
              /\ frs[k].name = results[k].name
              /\ frs[k].payload = results[k]
              /\ frs[k].shot = frs[1].shot
              /\ frs[k].url = frs[1].url

\* a turn with two outcomes has been observed
C11_Witness == Observed /\ pc = "request" /\ Len(frs) = 2

\* C12: a call whose name the executor does not recognise yields, in all
\* three scripts, an outcome with the warning "unimplemented_action" and no
\* error, and no browser operation is issued for it.
C12_UnimplementedWarning ==
    \A i \in 1..Len(results) :
        (i <= Len(cand) /\ cand[i].name \notin Recognized(script)
           /\ results[i].error # "user_denied") =>
            /\ results[i].warning = "unimplemented_action"
            /\ results[i].error = ""
            /\ Issued(i) = <<>>

\* C13: the history only grows at its end: every step leaves the history it
\* found as a prefix of the new one, and the first entry is the goal with the
\* initial screenshot.
C13_HistoryAppendOnly ==
    [][/\ Len(contents') >= Len(contents)
       /\ SubSeq(contents', 1, Len(contents)) = contents
       /\ (contents' # <<>> => contents'[1] = GoalEntry)]_vars

\* two turns have been observed and a third request is due
C13_Witness == pc = "request" /\ Observed /\ Len(contents) >= 5

\* C14: an outcome carries safety_acknowledgement exactly when its call
\* carried safety_decision and the operator allowed it, also when the allowed
\* operation raised; the outcome of a denied call and of a call without
\* safety_decision never carries it.
C14_AcknowledgementIffAllowed ==
    \A i \in 1..Len(results) :
        i <= Len(cand) =>
            (results[i].ack <=>
                (cand[i].safety /\ \E k \in Events("allow") : log[k].i = i))

\* an allowed operation raised: its outcome has the error and the flag
C14_Witness ==
    \E i \in 1..Len(results) :
        /\ i <= Len(cand)
        /\ results[i].ack
        /\ results[i].error \notin {"", "user_denied"}

\* C15: for a coordinate n of the grid 0..1000 a click lands on the pixel
\* (floor(x * 1440 / 1000), floor(y * 900 / 1000)).
C15_FloorOnGrid ==
    \A k \in Events("op") :
        LET c == cand[log[k].i] IN
        (log[k].d = "mouse.click" /\ c.x \in 0..Grid /\ c.y \in 0..Grid) =>
            log[k].at = << (c.x * SCREEN_WIDTH) \div Grid,
                           (c.y * SCREEN_HEIGHT) \div Grid >>

\* C16: in agent.py and job_form.py every executed action, its operation
\* having succeeded or raised, is followed by the load-state wait and then the
\* settling delay.
C16_SettleAfterEveryAction ==
    (script = "agent" \/ script = "job_form") =>
        \A i \in 1..Len(results) :
            (i <= Len(cand) /\ results[i].error # "user_denied") =>
                \E w \in Events("wait"), z \in Events("sleep") :
                    /\ log[w].i = i
                    /\ log[z].i = i
                    /\ w < z
                    /\ \A k \in Events("op") \cup Events("raise") :
                         log[k].i = i => k < w

\* C17: the executor works through the calls in the model's order, one after
\* the other: the events of a call never precede those of an earlier call,
\* the operations issued for a call are an initial part of its branch (each
\* attempted at most once), nothing of a call follows its raise but the wait
\* and the delay, and the operator's consent precedes the call's operations.
C17_InOrderAtMostOnce ==
    /\ \A j, k \in 1..Len(log) :
         (j < k /\ log[j].i > 0 /\ log[k].i > 0) => log[j].i <= log[k].i
    /\ \A i \in 1..Len(cand) :
         LET ops == BrowserOps(script, cand[i])
             mine == Issued(i)
         IN  /\ Len(mine) <= Len(ops)
             /\ mine = SubSeq(ops, 1, Len(mine))
             /\ Cardinality({ k \in Events("raise") : log[k].i = i }) <= 1
             /\ Cardinality({ k \in Events("allow") : log[k].i = i }) <= 1
             /\ \A r \in Events("raise") : \A k \in Events("op") :
                  (log[r].i = i /\ log[k].i = i) => k < r
             /\ \A a \in Events("allow") : \A k \in Events("op") :
                  (log[a].i = i /\ log[k].i = i) => a < k

\* the first call's operation raised and the second call's was issued
C17_Witness ==
    /\ \E r \in Events("raise") : log[r].i = 1
    /\ \E k \in Events("op") : log[k].i = 2

\* C18: in all three scripts type_text_at issues, in this order, the click,
\* select-all and delete exactly when clear_before_typing is true, the typing,
\* and Enter exactly when press_enter is true.
C18_TypeTextOrder ==
    \A i \in 1..Len(results) :
        LET c == cand[i] IN
        (c.name = "type_text_at" /\ c.clear # "absent" /\ c.enter # "absent"
           /\ results[i].error = "") =>
            Issued(i) =
                <<"mouse.click">>
                \o (IF c.clear = "true"
                    THEN <<"keyboard.press Meta+A", "keyboard.press Backspace">>
                    ELSE <<>>)
                \o <<"keyboard.type">>
                \o (IF c.enter = "true" THEN <<"keyboard.press Enter">> ELSE <<>>)

\* C19: for a coordinate outside the grid, negative or above 1000, a click
\* lands on the pixel the floor formula gives, without clamping.
C19_FloorOffGrid ==
    \A k \in Events("op") :
        LET c == cand[log[k].i] IN
        (log[k].d = "mouse.click" /\ c.x \notin 0..Grid /\ c.y \notin 0..Grid) =>
            log[k].at = << (c.x * SCREEN_WIDTH) \div Grid,
                           (c.y * SCREEN_HEIGHT) \div Grid >>

\* C20: the confirmation denies unless told otherwise: in all three scripts
\* an answer that is empty after trimming denies, and a call that carries
\* safety_decision has no operation issued before the operator's yes;
\* agent.py allows on y and yes only, in either case of letters, denies on the
\* empty answer, n and no, and asks again on anything else.
C20_DeniesByDefault ==
    [][LET ans == Lower(Strip(typed'))
           yes == { <<"y">>, <<"y", "e", "s">> }
           no == { <<>>, <<"n">>, <<"n", "o">> }
       IN  /\ (pc = "exec" /\ cand[idx].safety) =>
                /\ ans = <<>> => (denied' /\ pc' = "observe")
                /\ pc' = "op" => StartsWithY(ans)
                /\ script = "agent" =>
                     /\ pc' = "op" <=> ans \in yes
                     /\ denied' <=> ans \in no
                     /\ ans \notin yes \cup no =>
                          (pc' = pc /\ idx' = idx /\ results' = results /\ log' = log)
           /\ \A k \in 1..Len(log') :
                (log'[k].ev = "op" /\ cand'[log'[k].i].safety) =>
                    \E a \in 1..(k - 1) :
                        log'[a].ev = "allow" /\ log'[a].i = log'[k].i]_vars

\* the operator answered with blanks only and the call was denied
C20_Witness == denied /\ typed # <<>> /\ Strip(typed) = <<>>

\* C21: in all three scripts an observation appended to the history holds at
\* least one function response.
C21_ObservationNotEmpty == Observed => Len(frs) >= 1

\* C22: the history alternates user, model, user, ...: when a request is due
\* after k - 1 completed turns it holds exactly 2k - 1 entries, the first and
\* the last a user entry; every model entry but the last of the history is
\* followed at once by a user observation; and the history never holds more
\* than 2 * TURN_LIMIT + 1 = 21 entries.
C22_AlternatingHistory ==
    /\ Len(contents) <= 2 * TURN_LIMIT + 1
    /\ \A i \in 1..Len(contents) :
         contents[i].role = (IF i % 2 = 1 THEN "user" ELSE "model")
    /\ \A i \in 1..(Len(contents) - 1) :
         contents[i].kind = "response" =>
            contents[i + 1] = ObservationEntry(contents[i].turn)
    /\ pc = "request" =>
         /\ Len(contents) = 2 * (turn + 1) - 1
         /\ contents[1].role = "user"
         /\ contents[Len(contents)].role = "user"

\* all ten turns have been observed: the history is at its greatest length
C22_Witness ==
    pc = "request" /\ turn = TURN_LIMIT /\ Len(contents) = 2 * TURN_LIMIT + 1

====
